---- MODULE Spec2Model ----
(***************************************************************************)
(* The workbook written by scripts/create_ibond_tracker.py, as a state     *)
(* machine.  The state is the content of the workbook's input cells (the   *)
(* Rates table, the Inventory row, the BondSchedule selection) and the     *)
(* evaluation date; the formula cells the script writes are operators over *)
(* that state, translated function by function from the formula strings.   *)
(* The actions are the edits the workbook is built for.                    *)
(*                                                                         *)
(* Cell values are records [t, n, d, s]: t is "empty" (an empty cell),     *)
(* "num" (the rational n/d, in lowest terms), "text" (the string s) or the *)
(* name of a spreadsheet error.  A spilled array is a sequence of such     *)
(* values; a formula that yields one value is a sequence of length one.    *)
(*                                                                         *)
(* Dates are serial numbers in which every month has DateUnits days; the   *)
(* serial 0 is the epoch an empty cell is coerced to.  Real numbers are    *)
(* exact rationals, except POWER with a fractional exponent, which is      *)
(* computed in fixed point with PowScale units.                            *)
(***************************************************************************)
EXTENDS Integers, Sequences, FiniteSets, TLC

\* ---------------------------------------------------------------- bounds
MaxProject == 7      \* cap on MonthsToProject
MaxHeld == 12        \* cap on the months "today" advances past the first issue date
NumRateRows == 3     \* cap on the number of filled rows of the Rates table
DateUnits == 2       \* days per month of the model's calendar
PowScale == 1000     \* fixed-point resolution of a fractional POWER

\* ------------------------------------------------------ program constants
InvLastRow == 101    \* last row of the Inventory input area

\* ------------------------------------------------------------ cell values
RECURSIVE GCD(_, _)
GCD(a, b) == IF b = 0 THEN a ELSE GCD(b, a % b)

Abs(x) == IF x < 0 THEN -x ELSE x

Num(n, d) ==
    LET g == GCD(Abs(n), d)
    IN  [t |-> "num", n |-> n \div g, d |-> d \div g, s |-> ""]

Empty == [t |-> "empty", n |-> 0, d |-> 1, s |-> ""]
Text(str) == [t |-> "text", n |-> 0, d |-> 1, s |-> str]
EmptyStr == Text("")
Err(code) == [t |-> code, n |-> 0, d |-> 1, s |-> ""]

ErrorCodes == {"#N/A", "#NUM!", "#VALUE!", "#DIV/0!", "#CALC!", "#REF!"}
IsErr(v) == v.t \in ErrorCodes
IsNum(v) == v.t = "num"

\* what a cell shows nothing for: an empty cell or the empty string
IsBlank(v) == v.t = "empty" \/ v = EmptyStr

\* an empty cell used as a number is 0
Coerce(v) == IF v.t = "empty" THEN Num(0, 1) ELSE v

\* a formula that returns a reference to an empty cell shows 0
Deref(v) == IF v.t = "empty" THEN Num(0, 1) ELSE v

\* ------------------------------------------------ spreadsheet arithmetic
\* the operands of a binary operator: an error propagates (the left one first),
\* text is #VALUE!
BadArgs(a, b) == IsErr(a) \/ IsErr(b) \/ a.t = "text" \/ b.t = "text"
ArgError(a, b) ==
    IF IsErr(a) THEN a
    ELSE IF IsErr(b) THEN b
    ELSE Err("#VALUE!")

RAdd(a, b) == Num(a.n * b.d + b.n * a.d, a.d * b.d)
RMul(a, b) == Num(a.n * b.n, a.d * b.d)
RDiv(a, b) ==
    IF b.n = 0 THEN Err("#DIV/0!")
    ELSE IF b.n < 0 THEN Num(-(a.n * b.d), a.d * (-b.n))
    ELSE Num(a.n * b.d, a.d * b.n)

XAdd(a, b) == IF BadArgs(a, b) THEN ArgError(a, b) ELSE RAdd(Coerce(a), Coerce(b))
XMul(a, b) == IF BadArgs(a, b) THEN ArgError(a, b) ELSE RMul(Coerce(a), Coerce(b))
XDiv(a, b) == IF BadArgs(a, b) THEN ArgError(a, b) ELSE RDiv(Coerce(a), Coerce(b))

Floor(n, d) == n \div d     \* d > 0; \div rounds toward minus infinity

\* INT(x)
XInt(a) ==
    IF IsErr(a) THEN a
    ELSE IF a.t = "text" THEN Err("#VALUE!")
    ELSE Num(Floor(Coerce(a).n, Coerce(a).d), 1)

\* MOD(x, y) = x - y*INT(x/y)
RMod(x, y) ==
    IF y.n = 0 THEN Err("#DIV/0!")
    ELSE RAdd(x, RMul(Num(-1, 1), RMul(y, XInt(RDiv(x, y)))))

XMod(a, b) == IF BadArgs(a, b) THEN ArgError(a, b) ELSE RMod(Coerce(a), Coerce(b))

\* ROUND(x, 2): to the nearest hundredth, halves away from zero
RRound2(a) ==
    LET m == Abs(a.n) * 100
        q == (2 * m + a.d) \div (2 * a.d)
    IN  Num(IF a.n < 0 THEN -q ELSE q, 100)

XRound2(a) ==
    IF IsErr(a) THEN a
    ELSE IF a.t = "text" THEN Err("#VALUE!")
    ELSE RRound2(Coerce(a))

\* IFERROR(v, alt)
IfError(v, alt) == IF IsErr(v) THEN alt ELSE v

RLeq(a, b) == a.n * b.d <= b.n * a.d

\* a literal integer
I(k) == Num(k, 1)

\* x^k for a natural k, exactly
RECURSIVE RPowInt(_, _)
RPowInt(x, k) == IF k = 0 THEN I(1) ELSE RMul(x, RPowInt(x, k - 1))

\* integer square and cube roots, rounded down
RECURSIVE ISqrtBS(_, _, _)
ISqrtBS(n, lo, hi) ==
    IF lo = hi THEN lo
    ELSE LET mid == (lo + hi + 1) \div 2
         IN  IF mid * mid <= n THEN ISqrtBS(n, mid, hi) ELSE ISqrtBS(n, lo, mid - 1)

RECURSIVE ICbrtBS(_, _, _)
ICbrtBS(n, lo, hi) ==
    IF lo = hi THEN lo
    ELSE LET mid == (lo + hi + 1) \div 2
         IN  IF mid * mid * mid <= n THEN ICbrtBS(n, mid, hi) ELSE ICbrtBS(n, lo, mid - 1)

ISqrt(n) == ISqrtBS(n, 0, 46340)
ICbrt(n) == ICbrtBS(n, 0, 1290)

\* the sixth root of a positive rational, in PowScale units, rounded down
Root6(x) == ICbrt(ISqrt((x.n * PowScale * PowScale) \div x.d) * PowScale * PowScale)

\* root^steps in PowScale units, rounded down after every factor
RECURSIVE PowFix(_, _)
PowFix(root, steps) ==
    IF steps = 0 THEN PowScale ELSE (PowFix(root, steps - 1) * root) \div PowScale

\* POWER(x, e) of two numbers, for an exponent e >= 0 whose denominator divides 6:
\* exact for an integer e, in fixed point for a fractional one
RPower(x, e) ==
    IF x.n = 0 THEN (IF e.n = 0 THEN Err("#NUM!") ELSE I(0))
    ELSE IF e.d = 1 THEN RPowInt(x, e.n)
    ELSE IF x.n < 0 THEN Err("#NUM!")
    ELSE Num(PowFix(Root6(x), e.n * (6 \div e.d)), PowScale)

XPower(a, b) == IF BadArgs(a, b) THEN ArgError(a, b) ELSE RPower(Coerce(a), Coerce(b))

\* EXP(SUM(LN(vec))): the product of the elements, #NUM! unless all are positive
RECURSIVE RProd(_)
RProd(vec) == IF vec = <<>> THEN I(1) ELSE RMul(Head(vec), RProd(Tail(vec)))

ExpSumLn(vec) ==
    IF \E i \in DOMAIN vec : IsErr(vec[i])
    THEN vec[CHOOSE i \in DOMAIN vec : IsErr(vec[i]) /\ \A j \in 1..(i - 1) : ~IsErr(vec[j])]
    ELSE IF \E i \in DOMAIN vec : vec[i].t = "text" THEN Err("#VALUE!")
    ELSE IF \E i \in DOMAIN vec : Coerce(vec[i]).n <= 0 THEN Err("#NUM!")
    ELSE RProd([i \in DOMAIN vec |-> Coerce(vec[i])])

\* SCAN(1, vec, LAMBDA(a, x, a*x)): the running products, as long as vec
RECURSIVE ScanMul(_)
ScanMul(vec) ==
    IF vec = <<>> THEN <<>>
    ELSE LET n == Len(vec)
             front == ScanMul(SubSeq(vec, 1, n - 1))
         IN  Append(front, XMul(IF n = 1 THEN I(1) ELSE front[n - 1], vec[n]))

\* SEQUENCE(rows, 1, start, 1)
SequenceFrom(rows, start) ==
    IF IsErr(rows) THEN <<rows>>
    ELSE IF IsErr(start) THEN <<start>>
    ELSE IF rows.t = "text" \/ start.t = "text" THEN <<Err("#VALUE!")>>
    ELSE IF Floor(Coerce(rows).n, Coerce(rows).d) < 1 THEN <<Err("#CALC!")>>
    ELSE [i \in 1..Floor(Coerce(rows).n, Coerce(rows).d) |-> XAdd(start, I(i - 1))]

\* ------------------------------------------------------------- the state
\* rates : the filled rows of the Rates table, rows 2..Len(rates)+1 of the sheet,
\*         each [eff, var]; the rows below are empty
\* bond  : row 2 of Inventory, [id, issue, amount, fixed, mtp]; rows 3..101 are
\*         empty input rows
\* sel   : BondSchedule!B1, the selected BondID
\* today : the serial number TODAY() returns
VARIABLES rates, bond, sel, today
vars == <<rates, bond, sel, today>>

\* the serial number of a day of a month
DateOf(month, day) == month * DateUnits + day

\* ------------------------------------------------------------ sheet cells
\* Rates!A:A and Rates!B:B; row 1 is the header set_header writes
RatesA(row) ==
    IF row = 1 THEN Text("EffDate")
    ELSE IF row - 1 \in DOMAIN rates THEN rates[row - 1].eff
    ELSE Empty

RatesB(row) ==
    IF row = 1 THEN Text("VariableRate")
    ELSE IF row - 1 \in DOMAIN rates THEN rates[row - 1].var
    ELSE Empty

\* Inventory columns A, C, D, E, F of a data row
InvCell(field, r) == IF r = 2 THEN bond[field] ELSE Empty

\* ------------------------------------------------------ lookup functions
\* MATCH(x, Rates!A:A, 1) on a column sorted ascending: the row of the largest
\* date <= x; the header text is skipped for a numeric x
MatchRatesA(x) ==
    IF IsErr(x) THEN x
    ELSE IF x.t = "text" THEN Err("#N/A")
    ELSE LET rows == {r \in 2..(Len(rates) + 1) : IsNum(RatesA(r)) /\ RLeq(RatesA(r), Coerce(x))}
         IN  IF rows = {} THEN Err("#N/A")
             ELSE I(CHOOSE r \in rows : \A q \in rows : q <= r)

\* INDEX(Rates!B:B, idx): a reference to the cell of that row
IndexRatesB(idx) ==
    IF IsErr(idx) THEN idx
    ELSE IF idx.t = "text" \/ Coerce(idx).n < 1 THEN Err("#VALUE!")
    ELSE RatesB(Floor(Coerce(idx).n, Coerce(idx).d))

\* XLOOKUP($B$1, Inventory!$A$2:$A$101, Inventory!<col>$2:<col>$101): the cell of the
\* first row whose BondID equals the key; an empty key finds the first empty BondID.
\* Rows 3..101 are all alike (InvCell), so the first match is row 2, row 3 or none.
XLookupInv(key, field) ==
    LET same(a) == IF key.t = "empty" THEN a.t = "empty" ELSE a = key
    IN  IF same(InvCell("id", 2)) THEN InvCell(field, 2)
        ELSE IF 3 <= InvLastRow /\ same(InvCell("id", 3)) THEN InvCell(field, 3)
        ELSE Err("#N/A")

\* DATEDIF(a, b, "m"): the whole months from a to b, #NUM! when a is after b
DateDifM(a, b) ==
    IF BadArgs(a, b) THEN ArgError(a, b)
    ELSE IF Coerce(a).n > Coerce(b).n THEN Err("#NUM!")
    ELSE I(Floor(Coerce(b).n - Coerce(a).n, DateUnits))

\* EDATE(start, months)
EDate(start, months) ==
    IF BadArgs(start, months) THEN ArgError(start, months)
    ELSE I(Coerce(start).n + Coerce(months).n * DateUnits)

Today == I(today)

\* ------------------------------------------------------ the accrual terms
\* fixed + var + fixed*var
CompositeRate(fixed, var) == XAdd(XAdd(fixed, var), XMul(fixed, var))

\* (faulty variant: the annual composite rate applied to a half-year period)
HalfFac_NotHalved(fixed, var) == XAdd(I(1), CompositeRate(fixed, var))

\* 1 + ((fixed + var + fixed*var)/2)
HalfFac(fixed, var) == XAdd(I(1), XDiv(CompositeRate(fixed, var), I(2)))

\* --------------------------------------------------------- Inventory sheet
\* G{r}: =IFERROR(DATEDIF(C{r}, TODAY(), "m"), "")
MonthsHeld(r) == IfError(DateDifM(InvCell("issue", r), Today), EmptyStr)

\* varVec = IF(fullPeriods=0, "", INDEX(Rates!B:B, SEQUENCE(fullPeriods,1,startIdx,1)))
InvVarVec(startIdx, fullPeriods) ==
    IF fullPeriods = I(0) THEN <<EmptyStr>>
    ELSE LET idx == SequenceFrom(fullPeriods, startIdx)
         IN  [i \in DOMAIN idx |-> IndexRatesB(idx[i])]

\* lastVar = INDEX(Rates!B:B, startIdx + fullPeriods)
InvLastVar(startIdx, fullPeriods) == IndexRatesB(XAdd(startIdx, fullPeriods))

\* fullProd = IF(fullPeriods=0, 1, EXP(SUM(LN(1 + ((fixed + varVec + fixed*varVec)/2)))))
InvFullProd(fixed, varVec, fullPeriods) ==
    IF fullPeriods = I(0) THEN I(1)
    ELSE ExpSumLn([i \in DOMAIN varVec |-> HalfFac(fixed, varVec[i])])

\* the LET of H{r} from startIdx on, for a given number of months
CurrentValueLet(issue, principal, fixed, months) ==
    LET startIdx == MatchRatesA(issue)
        fullPeriods == XInt(XDiv(months, I(6)))
        monthsInPeriod == XMod(months, I(6))
        varVec == InvVarVec(startIdx, fullPeriods)
        fullProd == InvFullProd(fixed, varVec, fullPeriods)
        lastVar == InvLastVar(startIdx, fullPeriods)
        partial == XPower(HalfFac(fixed, lastVar), XDiv(monthsInPeriod, I(6)))
    IN  IfError(XRound2(XMul(XMul(principal, fullProd), partial)), EmptyStr)

\* H{r}: =IF(OR(C{r}="",D{r}="",E{r}=""),"", LET(...))
CurrentValue(r) ==
    LET issue == InvCell("issue", r)
        principal == InvCell("amount", r)
        fixed == InvCell("fixed", r)
    IN  IF IsBlank(issue) \/ IsBlank(principal) \/ IsBlank(fixed) THEN EmptyStr
        ELSE CurrentValueLet(issue, principal, fixed, IfError(DateDifM(issue, Today), I(0)))

\* ------------------------------------------------------ BondSchedule sheet
\* B3..B6: =IFERROR(XLOOKUP($B$1, Inventory!$A$2:$A$101, Inventory!<col>), "" or 0)
\* (faulty variant: the issue date falls back to 0, as MonthsToProject does)
B3_ZeroFallback == IfError(Deref(XLookupInv(sel, "issue")), I(0))

B3 == IfError(Deref(XLookupInv(sel, "issue")), EmptyStr)
B4 == IfError(Deref(XLookupInv(sel, "amount")), EmptyStr)
B5 == IfError(Deref(XLookupInv(sel, "fixed")), EmptyStr)
B6 == IfError(Deref(XLookupInv(sel, "mtp")), I(0))

\* (faulty variant: SEQUENCE($B$6, 1, 0, 1), one row short)
MonthSeq_OneShort == SequenceFrom(B6, I(0))

\* SEQUENCE($B$6+1, 1, 0, 1)
MonthSeq == SequenceFrom(XAdd(B6, I(1)), I(0))

\* A9: =IF($B$3="", "", EDATE($B$3, SEQUENCE($B$6+1, 1, 0, 1)))
ColMonth ==
    IF IsBlank(B3) THEN <<EmptyStr>>
    ELSE [i \in DOMAIN MonthSeq |-> EDate(B3, MonthSeq[i])]

\* B9: =IF($B$3="", "", SEQUENCE($B$6+1, 1, 0, 1))
ColMonthIndex == IF IsBlank(B3) THEN <<EmptyStr>> ELSE MonthSeq

\* (faulty variant: the row of the month itself, not of its period)
AnnIdx_PerMonth(startIdx, m) == XAdd(startIdx, m)

\* the rate row a month index reads: annIdx = startIdx + INT(m/6)
AnnIdx(startIdx, m) == XAdd(startIdx, XInt(XDiv(m, I(6))))

\* C9: =IF($B$3="", "", LET(m, B9#, ..., INDEX(Rates!B:B, annIdx)))
ColVariableRate ==
    IF IsBlank(B3) THEN <<EmptyStr>>
    ELSE LET m == ColMonthIndex
             startIdx == MatchRatesA(B3)
         IN  [i \in DOMAIN m |-> Deref(IndexRatesB(AnnIdx(startIdx, m[i])))]

\* D9: =IF($B$3="", "", LET(m, B9#, fixed, $B$5, var, C9#, fixed + var + fixed*var))
ColCompositeRate ==
    IF IsBlank(B3) THEN <<EmptyStr>>
    ELSE LET var == ColVariableRate
         IN  [i \in DOMAIN var |-> CompositeRate(B5, var[i])]

\* numPeriods = INT(maxM/6)+1
NumPeriods(maxM) == XAdd(XInt(XDiv(maxM, I(6))), I(1))

\* halfFacVec = 1 + (fixed + INDEX(Rates!B:B, startIdx + SEQUENCE(numPeriods,1,0,1)))/2 ...
HalfFacVec(fixed, startIdx, maxM) ==
    LET periodIdxVec == SequenceFrom(NumPeriods(maxM), I(0))
    IN  [j \in DOMAIN periodIdxVec |->
            HalfFac(fixed, IndexRatesB(XAdd(startIdx, periodIdxVec[j])))]

\* INDEX(vec, k+1) of a helper vector
IndexVec(vec, k) ==
    IF IsErr(k) THEN k
    ELSE IF k.n + 1 \in DOMAIN vec THEN vec[k.n + 1]
    ELSE Err("#REF!")

\* one element of E9, for the month index m: fullProd = INDEX(cumProdVec, k+1),
\* partial = POWER(INDEX(halfFacVec, k+1), r/6)
ScheduleValueLet(principal, halfFacVec, cumProdVec, m) ==
    LET k == XInt(XDiv(m, I(6)))
        r == XMod(m, I(6))
        fullProd == IndexVec(cumProdVec, k)
        partial == XPower(IndexVec(halfFacVec, k), XDiv(r, I(6)))
    IN  XRound2(XMul(XMul(principal, fullProd), partial))

\* E9: =IF($B$3="", "", LET(m, B9#, principal, $B$4, fixed, $B$5, maxM, $B$6, ...,
\*      cumProdVec, SCAN(1, halfFacVec, LAMBDA(a,x,a*x)), ...))
ColValue ==
    IF IsBlank(B3) THEN <<EmptyStr>>
    ELSE LET m == ColMonthIndex
             halfFacVec == HalfFacVec(B5, MatchRatesA(B3), B6)
             cumProdVec == ScanMul(halfFacVec)
         IN  [i \in DOMAIN m |-> ScheduleValueLet(B4, halfFacVec, cumProdVec, m[i])]

\* ------------------------------------------------------------ the workbook
\* The values the cells take.  The script's example quantities (1000.00, 0.9%,
\* 120 months, the years 2024 and 2025) are replaced by members of these sets.
RateMonths == {1, 7, 13, 19}                 \* Nov, May, Nov, May
VarRates == {I(0), Num(1, 2)}
IssueDates == {I(DateOf(3, 1)), I(DateOf(9, 1))}   \* mid January, mid July
Amounts == {I(1), Num(5, 2)}
FixedRates == {I(0), Num(1, 2)}
BondIDs == {Text("EX-0001"), Text("EX-0002")}

\* main(): the example rows of build_rates and build_inventory, nothing selected
Init ==
    /\ rates = << [eff |-> I(DateOf(7, 0)), var |-> I(0)],
                  [eff |-> I(DateOf(13, 0)), var |-> I(0)],
                  [eff |-> I(DateOf(19, 0)), var |-> I(0)] >>
    /\ bond = [id |-> Text("EX-0001"), issue |-> I(DateOf(3, 1)), amount |-> I(1),
               fixed |-> Num(1, 2), mtp |-> I(MaxProject)]
    /\ sel = Empty
    /\ today = DateOf(3, 1)

\* the user appends an announcement below the last one, in ascending date order
AppendRate ==
    /\ Len(rates) < NumRateRows
    /\ \E month \in RateMonths, v \in VarRates :
          /\ rates # <<>> => rates[Len(rates)].eff.n < DateOf(month, 0)
          /\ rates' = Append(rates, [eff |-> I(DateOf(month, 0)), var |-> v])
    /\ UNCHANGED <<bond, sel, today>>

\* the user clears the last announcement
RemoveLastRate ==
    /\ rates # <<>>
    /\ rates' = SubSeq(rates, 1, Len(rates) - 1)
    /\ UNCHANGED <<bond, sel, today>>

\* the user types into, or clears, an input cell of Inventory row 2
SetIssueDate ==
    /\ \E v \in IssueDates \cup {Empty} : v # bond.issue /\ bond' = [bond EXCEPT !.issue = v]
    /\ UNCHANGED <<rates, sel, today>>

SetPurchaseAmount ==
    /\ \E v \in Amounts \cup {Empty} : v # bond.amount /\ bond' = [bond EXCEPT !.amount = v]
    /\ UNCHANGED <<rates, sel, today>>

SetFixedRate ==
    /\ \E v \in FixedRates \cup {Empty} : v # bond.fixed /\ bond' = [bond EXCEPT !.fixed = v]
    /\ UNCHANGED <<rates, sel, today>>

SetMonthsToProject ==
    /\ \E k \in 0..MaxProject : I(k) # bond.mtp /\ bond' = [bond EXCEPT !.mtp = I(k)]
    /\ UNCHANGED <<rates, sel, today>>

\* the user picks, types or clears the Bond ID in BondSchedule!B1
SelectBond ==
    /\ \E v \in BondIDs \cup {Empty} : v # sel /\ sel' = v
    /\ UNCHANGED <<rates, bond, today>>

\* a month passes before the workbook is next recalculated
AdvanceToday ==
    /\ today + DateUnits <= DateOf(3 + MaxHeld, 1)
    /\ today' = today + DateUnits
    /\ UNCHANGED <<rates, bond, sel>>

EditRates == AppendRate \/ RemoveLastRate
EditBond == SetIssueDate \/ SetPurchaseAmount \/ SetFixedRate

\* The Inventory sheet in use: the bond and the rates are edited, time passes.
\* (No Inventory formula reads the selection or MonthsToProject.)
NextInventory == EditRates \/ EditBond \/ AdvanceToday
SpecInventory == Init /\ [][NextInventory]_vars

\* The BondSchedule sheet in use.  (No BondSchedule formula reads TODAY().)
NextSchedule == EditRates \/ EditBond \/ SetMonthsToProject \/ SelectBond
SpecSchedule == Init /\ [][NextSchedule]_vars

\* ================================================================ claims
\* the formula cells that hold one value, and the five spilled columns
ScalarCells == {MonthsHeld(2), CurrentValue(2), MonthsHeld(3), CurrentValue(3), B3, B4, B5, B6}
ScheduleCols == <<ColMonth, ColMonthIndex, ColVariableRate, ColCompositeRate, ColValue>>

\* the Inventory row the selection resolves to, if any
SelMatchesBond == sel.t = "text" /\ bond.id = sel
SelMatchesNone == sel.t = "text" /\ \A r \in 2..InvLastRow : InvCell("id", r) # sel

\* the lookup of the issue date in the rate table finds a record
LookupOK(issue) == \E j \in DOMAIN rates : rates[j].eff.n <= Coerce(issue).n

\* the number of a rational
IsNat(v) == IsNum(v) /\ v.d = 1 /\ v.n >= 0

\* ---------------------------------------------------------------- C1
\* C1 (as claimed): whenever the rate lookup succeeds, the value at month offset 0
\* is the purchase amount: Inventory CurrentValue when MonthsHeld = 0, and the
\* BondSchedule Value of the row with MonthIndex = 0.
C1_InventoryAtZero ==
    (/\ IsNum(bond.issue) /\ IsNum(bond.amount) /\ IsNum(bond.fixed)
     /\ LookupOK(bond.issue) /\ MonthsHeld(2) = I(0))
    => CurrentValue(2) = bond.amount

C1_ScheduleAtZero ==
    (/\ SelMatchesBond /\ IsNum(bond.issue) /\ IsNum(bond.amount) /\ IsNum(bond.fixed)
     /\ LookupOK(bond.issue))
    => (ColMonthIndex[1] = I(0) /\ ColValue[1] = bond.amount)

\* C1: the value at month offset 0 is the purchase amount, in Inventory and in
\* the schedule.
C1_ValueAtZero == C1_InventoryAtZero /\ C1_ScheduleAtZero

\* ---------------------------------------------------------------- C2
\* C2 (as claimed): for every MonthIndex m in 0..MonthsToProject the BondSchedule
\* Value of row m is what the Inventory CurrentValue formula yields for the same
\* bond and rate table at monthsHeld = m.
C2_ScheduleAgreesWithInventory ==
    (/\ SelMatchesBond /\ IsNum(bond.issue) /\ IsNum(bond.amount) /\ IsNum(bond.fixed)
     /\ LookupOK(bond.issue))
    => LET value == ColValue
       IN  \A m \in 0..bond.mtp.n :
               value[m + 1] = CurrentValueLet(bond.issue, bond.amount, bond.fixed, I(m))

\* ---------------------------------------------------------------- C3
\* the rate of the record with the latest effective date <= date, if there is one
LatestRate(date) ==
    LET j == CHOOSE q \in DOMAIN rates :
                 /\ rates[q].eff.n <= date
                 /\ \A p \in DOMAIN rates : rates[p].eff.n <= date => p <= q
    IN  rates[j].var

\* the start of period i of a bond: issue date + 6*i months
PeriodStart(issue, i) == issue.n + 6 * i * DateUnits

\* the rate the Inventory formula applies to period i when the bond has been held
\* for k full periods: element i+1 of varVec for i < k, lastVar for i = k
InvRateOfPeriod(issue, k, i) ==
    IF i < k THEN InvVarVec(MatchRatesA(issue), I(k))[i + 1]
    ELSE InvLastVar(MatchRatesA(issue), I(k))

\* the rate table is sorted ascending (AppendRate keeps it so)
RatesSorted == \A j \in 1..(Len(rates) - 1) : rates[j].eff.n < rates[j + 1].eff.n

\* consecutive records are exactly six months apart
RatesSixMonthsApart ==
    \A j \in 1..(Len(rates) - 1) : rates[j + 1].eff.n = rates[j].eff.n + 6 * DateUnits

\* the table holds a record in the row the formulas read for period i
HasRowForPeriod(issue, i) == IsNum(RatesB(MatchRatesA(issue).n + i))

\* C3 (as claimed): for a rate table sorted ascending, whatever the distance of its
\* dates, the variable rate applied to period i is that of the record with the
\* latest effectiveDate <= issueDate + 6*i months: in the VariableRate column of the
\* schedule and in Inventory CurrentValue.  (Stated for the periods whose row holds
\* a record; a period past the end of the table is the case of C6.)
C3_LatestRecordApplies ==
    (IsNum(bond.issue) /\ LookupOK(bond.issue) /\ RatesSorted) =>
        /\ SelMatchesBond =>
              LET var == ColVariableRate
              IN  \A m \in 0..bond.mtp.n :
                      HasRowForPeriod(bond.issue, m \div 6) =>
                          var[m + 1] = LatestRate(PeriodStart(bond.issue, m \div 6))
        /\ \A k \in 0..(MaxHeld \div 6) : \A i \in 0..k :
              HasRowForPeriod(bond.issue, i) =>
                  InvRateOfPeriod(bond.issue, k, i) = LatestRate(PeriodStart(bond.issue, i))

\* C3 (amended): the same, for a table whose records are exactly six months apart.
C3_LatestRecordAppliesSixMonthly ==
    (IsNum(bond.issue) /\ LookupOK(bond.issue) /\ RatesSorted /\ RatesSixMonthsApart) =>
        /\ SelMatchesBond =>
              LET var == ColVariableRate
              IN  \A m \in 0..bond.mtp.n :
                      HasRowForPeriod(bond.issue, m \div 6) =>
                          var[m + 1] = LatestRate(PeriodStart(bond.issue, m \div 6))
        /\ \A k \in 0..(MaxHeld \div 6) : \A i \in 0..k :
              HasRowForPeriod(bond.issue, i) =>
                  InvRateOfPeriod(bond.issue, k, i) = LatestRate(PeriodStart(bond.issue, i))

\* C3 witness: a selected bond whose second period has its own record, with a
\* rate other than the first period's
C3_Witness ==
    /\ SelMatchesBond /\ IsNum(bond.issue) /\ LookupOK(bond.issue)
    /\ RatesSixMonthsApart /\ bond.mtp.n >= 6
    /\ HasRowForPeriod(bond.issue, 1)
    /\ ColVariableRate[7] # ColVariableRate[1]
    /\ ColVariableRate[7] = LatestRate(PeriodStart(bond.issue, 1))

\* ---------------------------------------------------------------- C4
\* C4 (as claimed): in every Inventory data row, if issueDate, purchaseAmount or
\* fixedRate is blank then MonthsHeld and CurrentValue are both blank.
C4_BlankInputsBlankOutputs ==
    \A r \in 2..InvLastRow :
        (IsBlank(InvCell("issue", r)) \/ IsBlank(InvCell("amount", r))
            \/ IsBlank(InvCell("fixed", r)))
        => (IsBlank(MonthsHeld(r)) /\ IsBlank(CurrentValue(r)))

\* ---------------------------------------------------------------- C5
\* C5 (as claimed): no formula cell ever holds an error value.
\* (The schedule columns are looked at once a BondID is selected.)
C5_NoErrorSurfaces ==
    /\ \A v \in ScalarCells : ~IsErr(v)
    /\ sel.t = "text" =>
          LET cols == ScheduleCols
          IN  \A c \in DOMAIN cols : \A i \in DOMAIN cols[c] : ~IsErr(cols[c][i])

\* ---------------------------------------------------------------- C6
\* C6 (as claimed): if the issue date finds a rate record but the row of some
\* period 0..floor(monthsHeld/6) is empty, the value is blank.
C6_MissingPeriodIsBlank ==
    (/\ IsNum(bond.issue) /\ IsNum(bond.amount) /\ IsNum(bond.fixed)
     /\ LookupOK(bond.issue) /\ IsNum(MonthsHeld(2))
     /\ \E i \in 0..(MonthsHeld(2).n \div 6) :
            RatesB(MatchRatesA(bond.issue).n + i) = Empty)
    => IsBlank(CurrentValue(2))

\* ---------------------------------------------------------------- C7
\* C7: when the selected BondID equals no BondID of Inventory rows 2..101, the
\* resolved IssueDate, PurchaseAmount and FixedRate are blank, MonthsToProject
\* is 0, and none of the five schedule columns shows a row.
C7_NoMatchNoRows ==
    SelMatchesNone =>
        /\ B3 = EmptyStr /\ B4 = EmptyStr /\ B5 = EmptyStr /\ B6 = I(0)
        /\ LET cols == ScheduleCols
           IN  \A c \in DOMAIN cols : \A i \in DOMAIN cols[c] : IsBlank(cols[c][i])

\* C7 witness: an unmatched selection while Inventory holds a bond that would give rows
C7_Witness ==
    /\ SelMatchesNone /\ IsNum(bond.issue) /\ bond.mtp.n >= 6 /\ LookupOK(bond.issue)

\* ---------------------------------------------------------------- C8
\* the rows the formula reads for periods 0..k all hold the rate v
ConstantRate(issue, k, v) ==
    \A i \in 0..k : RatesB(MatchRatesA(issue).n + i) = v

\* round(P * (1 + (f + v + f*v)/2)^k, 2)
ClosedForm(P, f, v, k) ==
    RRound2(RMul(P, RPowInt(RAdd(I(1), RDiv(RAdd(RAdd(f, v), RMul(f, v)), I(2))), k)))

\* C8: with the same variable rate v in the table for every period 0..k, Inventory
\* CurrentValue at monthsHeld = 6k is round(purchaseAmount * (1 + (f+v+f*v)/2)^k, 2).
C8_ConstantRateClosedForm ==
    \A k \in 0..(MaxHeld \div 6) : \A v \in VarRates :
        (/\ IsNum(bond.issue) /\ IsNum(bond.amount) /\ IsNum(bond.fixed)
         /\ LookupOK(bond.issue) /\ MonthsHeld(2) = I(6 * k)
         /\ ConstantRate(bond.issue, k, v))
        => CurrentValue(2) = ClosedForm(bond.amount, bond.fixed, v, k)

\* C8 witness: two whole periods at a rate that makes the value grow
C8_Witness ==
    /\ IsNum(bond.issue) /\ IsNum(bond.amount) /\ LookupOK(bond.issue)
    /\ bond.fixed = Num(1, 2) /\ MonthsHeld(2) = I(12)
    /\ ConstantRate(bond.issue, 2, Num(1, 2))
    /\ CurrentValue(2) = ClosedForm(bond.amount, bond.fixed, Num(1, 2), 2)
    /\ CurrentValue(2) # bond.amount

\* ---------------------------------------------------------------- C9
\* C9 (as claimed): every period's composite rate being >= 0, the BondSchedule
\* Value of row m+1 is >= that of row m, for every m in 0..MonthsToProject-1.
C9_ScheduleMonotone ==
    (/\ SelMatchesBond /\ IsNum(bond.issue) /\ IsNum(bond.amount) /\ IsNum(bond.fixed)
     /\ LookupOK(bond.issue)
     /\ \A i \in DOMAIN ColCompositeRate : RLeq(I(0), ColCompositeRate[i]))
    => LET value == ColValue
       IN  \A m \in 1..bond.mtp.n : RLeq(value[m], value[m + 1])

\* ---------------------------------------------------------------- C10
\* C10: a resolved bond with MonthsToProject = N has N + 1 schedule rows; row i
\* has MonthIndex = i and Month = issue date + i months, and the period index
\* floor(i/6) of every row lies inside the helper vector of floor(N/6) + 1 periods.
C10_RowCount ==
    (SelMatchesBond /\ IsNat(bond.mtp)) =>
        LET N == bond.mtp.n
            helper == HalfFacVec(B5, MatchRatesA(B3), B6)
            cols == ScheduleCols
        IN  /\ \A c \in DOMAIN cols : Len(cols[c]) = N + 1
            /\ Len(helper) = (N \div 6) + 1
            /\ \A i \in 0..N :
                  /\ cols[2][i + 1] = I(i)
                  /\ cols[1][i + 1] = I(Coerce(bond.issue).n + i * DateUnits)
                  /\ (i \div 6) + 1 \in DOMAIN helper
                  /\ cols[5][i + 1].t # "#REF!"

\* C10 witness: a selected bond whose schedule crosses a period boundary
C10_Witness ==
    /\ SelMatchesBond /\ IsNum(bond.issue) /\ bond.mtp.n >= 6 /\ Len(ColMonth) >= 7

====
